---- MODULE Spec2Model ----
(***************************************************************************)
(* Bounded priority deque of include/BoundedPriorityDeque.hpp: a sorted    *)
(* ring buffer of (key, value) pairs with a capacity bound, O(1) removal   *)
(* at both ends, a merge of two instances and an in-place resize.          *)
(*                                                                         *)
(* A container is a record of the class's fields (_buffer, _k, _size,      *)
(* _head, _tail) and of the variant it was constructed as (policy).        *)
(* Buffer indices are the zero-based indices of the code; slot i of the    *)
(* std::vector is buffer[i + 1] of the TLA+ sequence.                      *)
(***************************************************************************)
EXTENDS Integers, Sequences, FiniteSets, TLC

\* ------------------------------------------------------------------ bounds
MaxCap == 3      \* largest capacity given to a constructor or to resize
MaxKey == 2      \* keys pushed are 1..MaxKey
RhsOps == 4      \* calls that build the right-hand side of a merge
MaxPush == 4     \* entries pushed in one round trip
MaxShardPush == 3  \* entries pushed by all workers of a sharded run together
PerThread == 2   \* entries each thread pushes into the shared container
TwinRhsOps == 2  \* calls that build a right-hand side merged into two containers
\* num_threads of the multi-threaded test
NumThreads == 2

Keys == 1..MaxKey
\* Payloads are opaque to the container: no operation reads one.
Values == {"a"}
Policies == {"min", "max"}

\* size_t arithmetic wraps modulo SizeModulus (2^64 in the build; 2^30 here,
\* the largest power of two whose sums TLC's integers still hold).
SizeModulus == 2^30
SizeT(x) == x % SizeModulus

VARIABLES d, fault, call, pushed, popped, workers, mutex, twin

vars == <<d, fault, call, pushed, popped, workers, mutex, twin>>

\* The programs with one thread have no workers and never take the mutex.
NoThread == 0

\* The programs with one container have no second one.
NoTwin == <<>>

\* ------------------------------------------------------------ element type
\* BoundingPair<K, V>: key and value, ordered by key.
BoundingPair(key, value) == [key |-> key, value |-> value]

\* Element a std::vector<BoundingPair>(n) is filled with (value-initialised).
DefaultPair == BoundingPair(0, "")

Pairs == {BoundingPair(k, v) : k \in Keys, v \in Values}

\* The comparators the custom variant is constructed with: std::less<K>
\* (its default) and std::greater<>.
Comparators == {"less", "greater"}

\* The custom variant calling its comparator with the arguments swapped
\* (mutant).
comparatorSwapped(c, a, b) == IF c = "less" THEN b < a ELSE b > a

\* comparator(a, b) of the custom variant.
comparator(c, a, b) == IF c = "less" THEN a < b ELSE a > b

\* compare(a, b) of the three variants: a < b (min), a > b (max), and the
\* comparator's answer (custom; policy then names the comparator).
compare(q, a, b) ==
    IF q.policy = "min" THEN a < b
    ELSE IF q.policy = "max" THEN a > b
    ELSE comparator(q.policy, a, b)

\* ----------------------------------------------------------- construction
\* BoundedPriorityDequeBase(capacity): _buffer(capacity), _k(capacity),
\* _size = 0, _head = 0, _tail = 0.
Construct(capacity, variant) ==
    [policy |-> variant,
     buffer |-> [i \in 1..capacity |-> DefaultPair],
     k      |-> capacity,
     size   |-> 0,
     head   |-> 0,
     tail   |-> 0]

\* _buffer[i]
At(q, i) == q.buffer[i + 1]

nextIndex(q, current) == SizeT(current + 1) % q.k

prevIndex(q, current) == SizeT(current + q.k - 1) % q.k

\* std::min that returns its first argument (mutant).
MinFirst(a, b) == a

\* std::min
Min2(a, b) == IF a <= b THEN a ELSE b

\* --------------------------------------------------------------- accessors
size(q) == q.size

capacity(q) == q.k

empty(q) == q.size = 0

full(q) == q.size = q.k

\* top(), bottom(), topK(), bottomK() of the unchecked build: plain reads.
top(q) == At(q, q.head)

bottom(q) == At(q, q.tail)

topK(q) == At(q, q.head).key

bottomK(q) == At(q, q.tail).key

\* operator[](offsetTop): the element offsetTop places below the top.
Subscript(q, offsetTop) ==
    At(q, IF q.head <= q.tail THEN q.head + offsetTop
                              ELSE (q.head + offsetTop) % q.k)

\* ----------------------------------------------------------- binary search
\* The loop going right on a key equal to the target's (mutant).
RECURSIVE BinarySearchUpper(_, _, _, _)
BinarySearchUpper(q, target, start, end) ==
    IF start = end THEN start
    ELSE LET mid == start + ((end - start) \div 2)
         IN  IF ~compare(q, target.key, At(q, (q.head + mid) % q.k).key)
             THEN BinarySearchUpper(q, target, mid + 1, end)
             ELSE BinarySearchUpper(q, target, start, mid)

\* The while loop of binarySearch, on logical offsets start..end from _head.
RECURSIVE BinarySearchLoop(_, _, _, _)
BinarySearchLoop(q, target, start, end) ==
    IF start = end THEN start
    ELSE LET mid == start + ((end - start) \div 2)
         IN  IF compare(q, At(q, (q.head + mid) % q.k).key, target.key)
             THEN BinarySearchLoop(q, target, mid + 1, end)
             ELSE BinarySearchLoop(q, target, start, mid)

\* A search that tries the offsets one after the other (mutant).
RECURSIVE LinearSearchProbes(_, _, _, _)
LinearSearchProbes(q, target, start, end) ==
    IF start = end THEN <<>>
    ELSE IF compare(q, At(q, (q.head + start) % q.k).key, target.key)
         THEN <<start>> \o LinearSearchProbes(q, target, start + 1, end)
         ELSE <<start>>

\* The offsets from _head whose keys the while loop of binarySearch compares
\* with the target's, in the order of the comparisons.
RECURSIVE BinarySearchProbes(_, _, _, _)
BinarySearchProbes(q, target, start, end) ==
    IF start = end THEN <<>>
    ELSE LET mid == start + ((end - start) \div 2)
         IN  IF compare(q, At(q, (q.head + mid) % q.k).key, target.key)
             THEN <<mid>> \o BinarySearchProbes(q, target, mid + 1, end)
             ELSE <<mid>> \o BinarySearchProbes(q, target, start, mid)

binarySearch(q, target) ==
    (q.head + BinarySearchLoop(q, target, 0, q.size)) % q.k

\* ------------------------------------------------------- std::move ranges
\* std::move(first, last, d_first) and std::move_backward(first, last, d_last)
\* on one vector: slots [first, last) land on [dfirst, dfirst + last - first).
\* Both shifts of insert are by one slot in the direction that reads every
\* source slot before it is overwritten.
MoveRange(buffer, first, last, dfirst) ==
    [i \in 1..Len(buffer) |->
        IF (i - 1) >= dfirst /\ (i - 1) < dfirst + (last - first)
        THEN buffer[first + ((i - 1) - dfirst) + 1]
        ELSE buffer[i]]

\* The iterator range is one the standard allows: first <= last inside the
\* vector, and the destination inside the vector.
ValidMove(buffer, first, last, dfirst) ==
    /\ 0 <= first /\ first <= last /\ last <= Len(buffer)
    /\ (last > first) => (dfirst >= 0 /\ dfirst + (last - first) <= Len(buffer))

\* Outcomes of a shift.  A valid range moves the elements.  An invalid range
\* is undefined behaviour: the builds either copy nothing (element-wise loop
\* with a non-positive count) or run memmove with a wrapped length and abort.
ShiftOutcomes(buffer, first, last, dfirst) ==
    IF ValidMove(buffer, first, last, dfirst)
    THEN {[buffer |-> MoveRange(buffer, first, last, dfirst), ok |-> TRUE]}
    ELSE {[buffer |-> buffer, ok |-> TRUE], [buffer |-> buffer, ok |-> FALSE]}

\* An operation's outcome: the container afterwards, and whether the process
\* is still running (ok = FALSE: aborted inside the operation).
Done(q) == [q |-> q, ok |-> TRUE]

Aborted(q) == [q |-> q, ok |-> FALSE]

\* The tail of insert: _buffer[index] = element; ++_size.
Place(q, index, element) ==
    [q EXCEPT !.buffer[index + 1] = element, !.size = q.size + 1]

\* ------------------------------------------------------------------ insert
\* The first branch of insert leaving _head and _tail as they are (mutant).
insertEmptyKeepsIndices(q, element) ==
    [q EXCEPT !.buffer[1] = element, !.size = 1]

\* The first branch of insert, taken when _size == 0.
insertEmpty(q, element) ==
    [q EXCEPT !.buffer[1] = element, !.head = 0, !.tail = 0, !.size = 1]

insert(q, element) ==
    IF q.size = 0
    THEN {Done(insertEmpty(q, element))}
    ELSE
    LET index == binarySearch(q, element) IN
    IF index = nextIndex(q, q.tail)
    THEN IF index = prevIndex(q, q.head) /\ compare(q, element.key, topK(q))
         THEN {Done(Place([q EXCEPT !.head = prevIndex(q, q.head)], index, element))}
         ELSE {Done(Place([q EXCEPT !.tail = nextIndex(q, q.tail)], index, element))}
    ELSE IF index = prevIndex(q, q.head)
    THEN {Done(Place([q EXCEPT !.head = prevIndex(q, q.head)], index, element))}
    ELSE IF q.head <= q.tail /\ q.head > 0
    THEN {IF s.ok
          THEN Done(Place([q EXCEPT !.buffer = s.buffer, !.head = q.head - 1],
                          index, element))
          ELSE Aborted(q)
          : s \in ShiftOutcomes(q.buffer, q.head, index + 1, q.head - 1)}
    ELSE {IF s.ok
          THEN Done(Place([q EXCEPT !.buffer = s.buffer, !.tail = q.tail + 1],
                          index, element))
          ELSE Aborted(q)
          : s \in ShiftOutcomes(q.buffer, index, q.tail + 1, index + 1)}

\* The number of elements the std::move or std::move_backward of insert is
\* asked to move (last - first; 0 in the branches that shift nothing and for
\* a range with first > last).
shiftCount(q, element) ==
    IF q.size = 0 THEN 0
    ELSE
    LET index == binarySearch(q, element) IN
    IF index = nextIndex(q, q.tail) \/ index = prevIndex(q, q.head) THEN 0
    ELSE IF q.head <= q.tail /\ q.head > 0
    THEN IF q.head <= index + 1 THEN (index + 1) - q.head ELSE 0
    ELSE IF index <= q.tail + 1 THEN (q.tail + 1) - index ELSE 0

\* ------------------------------------------------------------------- clear
\* clear that leaves _tail where it was (mutant).
clearKeepsTail(q) == [q EXCEPT !.head = 0, !.size = 0]

clear(q) == [q EXCEPT !.head = 0, !.tail = 0, !.size = 0]

\* _popTop that does not call clear() (mutant).
popTopNoReset(q) ==
    [q EXCEPT !.head = nextIndex(q, q.head), !.size = q.size - 1]

\* _popTop / _popBottom: move the index, drop the size, reset when empty.
popTopInternal(q) ==
    LET r == [q EXCEPT !.head = nextIndex(q, q.head), !.size = q.size - 1]
    IN  IF r.size = 0 THEN clear(r) ELSE r

\* _popBottom that steps _tail back without wrapping to _k - 1 (mutant).
popBottomNoWrap(q) ==
    LET r == [q EXCEPT !.tail = SizeT(q.tail - 1), !.size = q.size - 1]
    IN  IF r.size = 0 THEN clear(r) ELSE r

popBottomInternal(q) ==
    LET r == [q EXCEPT !.tail = prevIndex(q, q.tail), !.size = q.size - 1]
    IN  IF r.size = 0 THEN clear(r) ELSE r

\* ----------------------------------------------------------- push / emplace
\* Slot i exists in the vector.
InBounds(q, i) == i < Len(q.buffer)

\* _buffer[_tail] read outside the vector (a container of capacity 0, whose
\* vector is empty): undefined behaviour.  The builds fault on the read
\* (null data pointer), or read a stray key; a key that compares better
\* goes on to _popBottom, whose prevIndex divides by _k == 0 and traps; one
\* that does not makes the call return.
OutOfBounds(q) == {Aborted(q), Done(q)}

\* push that evicts the bottom of a full container without comparing (mutant).
pushAlwaysEvict(q, element) ==
    IF q.size = q.k
    THEN insert(popBottomInternal(q), element)
    ELSE insert(q, element)

\* push that compares the bottom with the candidate, arguments swapped
\* (mutant).
pushSwapped(q, element) ==
    IF q.size = q.k
    THEN IF compare(q, At(q, q.tail).key, element.key)
         THEN insert(popBottomInternal(q), element)
         ELSE {Done(q)}
    ELSE insert(q, element)

push(q, element) ==
    IF q.size = q.k
    THEN IF ~InBounds(q, q.tail)
         THEN OutOfBounds(q)
         ELSE IF compare(q, element.key, At(q, q.tail).key)
         THEN insert(popBottomInternal(q), element)
         ELSE {Done(q)}
    ELSE insert(q, element)

\* emplace that returns whenever the container is full (mutant).
emplaceNoEvict(q, key, value) ==
    IF q.size = q.k THEN {Done(q)} ELSE insert(q, BoundingPair(key, value))

emplace(q, key, value) ==
    IF q.size = q.k
    THEN IF ~InBounds(q, q.tail)
         THEN OutOfBounds(q)
         ELSE IF compare(q, key, At(q, q.tail).key)
         THEN insert(popBottomInternal(q), BoundingPair(key, value))
         ELSE {Done(q)}
    ELSE insert(q, BoundingPair(key, value))

\* -------------------------------------------------------- pop / popBottom
\* pop that reads the slot _head points at after the move (mutant).
popReadsNewHead(q) ==
    LET r == popTopInternal(q)
    IN  [q |-> r, ret |-> At(r, r.head)]

\* The container afterwards and the element returned (read from the slot
\* after the index has moved on).
pop(q) ==
    LET index == q.head
        r == popTopInternal(q)
    IN  [q |-> r, ret |-> At(r, index)]

\* popBottom that reads the slot _tail points at after the move (mutant).
popBottomReadsNewTail(q) ==
    LET r == popBottomInternal(q)
    IN  [q |-> r, ret |-> At(r, r.tail)]

popBottom(q) ==
    LET index == q.tail
        r == popBottomInternal(q)
    IN  [q |-> r, ret |-> At(r, index)]

\* ------------------------------------------------------------- operator+=
\* The for loop from i on.  An outcome carries both operands: this as it
\* ends up, and rhs as the loop leaves it (the loop reads rhs through
\* size() and operator[] only).
\* A merge that leaves its right-hand side drained (mutant).
MergedDrained(this, rhs, ok) == [q |-> this, rhs |-> clear(rhs), ok |-> ok]

Merged(this, rhs, ok) == [q |-> this, rhs |-> rhs, ok |-> ok]

RECURSIVE MergeLoop(_, _, _)
MergeLoop(this, rhs, i) ==
    IF ~(i < size(rhs))
    THEN {Merged(this, rhs, TRUE)}
    ELSE
    LET element == Subscript(rhs, i) IN
    IF this.size = this.k /\ ~InBounds(this, this.tail)
    THEN {Merged(o.q, rhs, o.ok) : o \in OutOfBounds(this)}
    ELSE
    IF this.size = this.k /\ ~compare(this, element.key, bottomK(this))
    THEN {Merged(this, rhs, TRUE)}
    ELSE
    LET room == IF this.size = this.k THEN popBottomInternal(this) ELSE this
    IN  UNION {IF o.ok THEN MergeLoop(o.q, rhs, i + 1)
                       ELSE {Merged(o.q, rhs, FALSE)}
               : o \in insert(room, element)}

\* operator+= whose loop starts at i = 1 (mutant).
mergeFromOne(this, rhs) == MergeLoop(this, rhs, 1)

merge(this, rhs) == MergeLoop(this, rhs, 0)

\* ------------------------------------------------------------------ resize
\* resize that copies from slot 0 instead of from _head (mutant).
resizeFromZero(q, k) ==
    LET n == Min2(q.size, k)
    IN  [policy |-> q.policy,
         buffer |-> [i \in 1..k |-> IF i <= n THEN q.buffer[i] ELSE DefaultPair],
         k |-> k, size |-> n, head |-> 0, tail |-> SizeT(n - 1)]

\* The body of resize after the k == 0 check: a new buffer of k slots, the
\* live range moved to its front in one or two segments.
resizeTo(q, k) ==
    LET newBuffer == [i \in 1..k |-> DefaultPair] IN
    IF q.head <= q.tail
    THEN LET elementsToCopy == Min2(q.size, k)
             copied == [i \in 1..k |->
                           IF i <= elementsToCopy THEN q.buffer[q.head + i]
                                                  ELSE newBuffer[i]]
         IN  [policy |-> q.policy,
              buffer |-> copied, k |-> k, size |-> elementsToCopy,
              head |-> 0, tail |-> SizeT(elementsToCopy - 1)]
    ELSE LET topSize == q.k - q.head
             bottomSize == q.tail + 1
             elementsToCopyTop == Min2(topSize, k)
             elementsToCopyBottom == Min2(bottomSize, k - elementsToCopyTop)
             newSize == elementsToCopyTop + elementsToCopyBottom
             copied == [i \in 1..k |->
                           IF i <= elementsToCopyTop
                           THEN q.buffer[q.head + i]
                           ELSE IF i <= newSize
                           THEN q.buffer[i - elementsToCopyTop]
                           ELSE newBuffer[i]]
         IN  [policy |-> q.policy,
              buffer |-> copied, k |-> k, size |-> newSize,
              head |-> 0, tail |-> SizeT(newSize - 1)]

\* resize without its k == 0 return (mutant).
resizeUnchecked(q, k) == resizeTo(q, k)

\* resize that empties the container when given 0 (mutant).
resizeZeroClears(q, k) == IF k = 0 THEN clear(q) ELSE resizeTo(q, k)

resize(q, k) == IF k = 0 THEN q ELSE resizeTo(q, k)

\* ------------------------------------------------------------ the program
\* Containers a program can hold as the right-hand side of a merge: those
\* built from a fresh container by at most n push and pop calls.
RECURSIVE ReachWithin(_, _)
ReachWithin(S, n) ==
    IF n = 0 THEN S
    ELSE ReachWithin(
            S \cup {o.q : o \in {x \in UNION {push(q, e) : q \in S, e \in Pairs}
                                 : x.ok}}
              \cup {pop(q).q : q \in {x \in S : ~empty(x)}},
            n - 1)

RhsStates ==
    ReachWithin({Construct(c, v) : c \in 1..MaxCap, v \in Policies}, RhsOps)

\* Live range runs past the physical end of the buffer.
Wrapped(q) == q.size > 0 /\ q.head > q.tail

\* what() of an exception, word by word; NoError: nothing was thrown.
NoError == <<>>

\* call: the last operation run: its name and arguments, what it returned,
\* whether a merge left its right-hand side as it was, what the container
\* looked like when the operation was called, and the message of the
\* exception it threw.
Call(op, elem, cap, ret, rhsSize, rhsKept) ==
    [op |-> op, elem |-> elem, cap |-> cap, ret |-> ret,
     rhsSize |-> rhsSize, rhsKept |-> rhsKept,
     preSize |-> d.size, preFull |-> full(d), preWrapped |-> Wrapped(d),
     preBottom |-> IF empty(d) THEN DefaultPair ELSE bottom(d),
     error |-> NoError]

Init ==
    /\ d \in {Construct(c, v) : c \in 1..MaxCap, v \in Policies}
    /\ fault = FALSE
    /\ call = Call("construct", DefaultPair, d.k, DefaultPair, 0, TRUE)
    /\ pushed = <<>>
    /\ popped = <<>>
    /\ workers = <<>>
    /\ mutex = NoThread
    /\ twin = NoTwin

Push(element) ==
    /\ ~fault
    /\ \E o \in push(d, element) :
          /\ d' = o.q
          /\ fault' = ~o.ok
    /\ call' = Call("push", element, 0, DefaultPair, 0, TRUE)
    /\ UNCHANGED <<pushed, popped, workers, mutex, twin>>

Emplace(key, value) ==
    /\ ~fault
    /\ \E o \in emplace(d, key, value) :
          /\ d' = o.q
          /\ fault' = ~o.ok
    /\ call' = Call("emplace", BoundingPair(key, value), 0, DefaultPair, 0, TRUE)
    /\ UNCHANGED <<pushed, popped, workers, mutex, twin>>

\* pop() and popBottom() are called on a non-empty container only.
Pop ==
    /\ ~fault
    /\ ~empty(d)
    /\ d' = pop(d).q
    /\ call' = Call("pop", DefaultPair, 0, pop(d).ret, 0, TRUE)
    /\ UNCHANGED <<fault, pushed, popped, workers, mutex, twin>>

PopBottom ==
    /\ ~fault
    /\ ~empty(d)
    /\ d' = popBottom(d).q
    /\ call' = Call("popBottom", DefaultPair, 0, popBottom(d).ret, 0, TRUE)
    /\ UNCHANGED <<fault, pushed, popped, workers, mutex, twin>>

\* d += rhs, rhs another container of the same variant and capacity.
Merge(rhs) ==
    /\ ~fault
    /\ rhs.policy = d.policy
    /\ rhs.k = d.k
    /\ \E o \in merge(d, rhs) :
          /\ d' = o.q
          /\ fault' = ~o.ok
          /\ call' = Call("merge", DefaultPair, 0, DefaultPair, size(rhs), o.rhs = rhs)
    /\ UNCHANGED <<pushed, popped, workers, mutex, twin>>

Resize(k) ==
    /\ ~fault
    /\ d' = resize(d, k)
    /\ call' = Call("resize", DefaultPair, k, DefaultPair, 0, TRUE)
    /\ UNCHANGED <<fault, pushed, popped, workers, mutex, twin>>

Clear ==
    /\ ~fault
    /\ d' = clear(d)
    /\ call' = Call("clear", DefaultPair, 0, DefaultPair, 0, TRUE)
    /\ UNCHANGED <<fault, pushed, popped, workers, mutex, twin>>

Next ==
    \/ \E element \in Pairs : Push(element)
    \/ \E key \in Keys, value \in Values : Emplace(key, value)
    \/ Pop
    \/ PopBottom
    \/ \E rhs \in RhsStates : Merge(rhs)
    \/ \E k \in 0..MaxCap : Resize(k)
    \/ Clear

Spec == Init /\ [][Next]_vars

\* ----------------------------------------------------------- checked build
\* With ENABLE_DEBUG defined, top, bottom, topK, bottomK, pop and popBottom
\* throw std::runtime_error on an empty container before doing anything else.
\* The messages, as written in the header.
TopMessage ==
    <<"Attempted", "to", "access", "top", "element", "of", "empty",
      "BoundedPriorityDeque">>

BottomMessage ==
    <<"Attempted", "to", "access", "bottom", "element", "of", "empty",
      "BoundedPriorityDeque">>

PopMessage == <<"Attempted", "to", "pop", "from", "empty", "BoundedPriorityDeque">>

\* What a checked call hands back: the container afterwards, the value
\* returned, and the message thrown (NoError: returned normally).
Returned(q, ret) == [q |-> q, ret |-> ret, error |-> NoError]

Threw(q, message) == [q |-> q, ret |-> DefaultPair, error |-> message]

checkedTop(q) == IF empty(q) THEN Threw(q, TopMessage) ELSE Returned(q, top(q))

checkedBottom(q) ==
    IF empty(q) THEN Threw(q, BottomMessage) ELSE Returned(q, bottom(q))

checkedTopK(q) ==
    IF empty(q) THEN Threw(q, BottomMessage) ELSE Returned(q, topK(q))

checkedBottomK(q) ==
    IF empty(q) THEN Threw(q, BottomMessage) ELSE Returned(q, bottomK(q))

\* pop that checks for emptiness after moving _head (mutant).
checkedPopLate(q) ==
    IF empty(q)
    THEN Threw([q EXCEPT !.head = nextIndex(q, q.head)], PopMessage)
    ELSE Returned(pop(q).q, pop(q).ret)

checkedPop(q) ==
    IF empty(q) THEN Threw(q, PopMessage) ELSE Returned(pop(q).q, pop(q).ret)

checkedPopBottom(q) ==
    IF empty(q) THEN Threw(q, PopMessage)
                ELSE Returned(popBottom(q).q, popBottom(q).ret)

\* The record of a checked call.
CheckedCall(op, o) ==
    [Call(op, DefaultPair, 0, o.ret, 0, TRUE) EXCEPT !.error = o.error]

\* A const accessor of the checked build: the container stays as it is.
CheckedRead(op, o) ==
    /\ ~fault
    /\ call' = CheckedCall(op, o)
    /\ UNCHANGED <<d, fault, pushed, popped, workers, mutex, twin>>

CheckedTop == CheckedRead("top", checkedTop(d))

CheckedBottom == CheckedRead("bottom", checkedBottom(d))

CheckedTopK == CheckedRead("topK", checkedTopK(d))

CheckedBottomK == CheckedRead("bottomK", checkedBottomK(d))

\* pop() and popBottom() of the checked build, on any container; the caller
\* catches the exception.
CheckedPop ==
    /\ ~fault
    /\ d' = checkedPop(d).q
    /\ call' = CheckedCall("pop", checkedPop(d))
    /\ UNCHANGED <<fault, pushed, popped, workers, mutex, twin>>

CheckedPopBottom ==
    /\ ~fault
    /\ d' = checkedPopBottom(d).q
    /\ call' = CheckedCall("popBottom", checkedPopBottom(d))
    /\ UNCHANGED <<fault, pushed, popped, workers, mutex, twin>>

CheckedNext ==
    \/ CheckedTop
    \/ CheckedBottom
    \/ CheckedTopK
    \/ CheckedBottomK
    \/ CheckedPop
    \/ CheckedPopBottom
    \/ \E element \in Pairs : Push(element)
    \/ \E key \in Keys, value \in Values : Emplace(key, value)
    \/ \E rhs \in RhsStates : Merge(rhs)
    \/ \E k \in 0..MaxCap : Resize(k)
    \/ Clear

CheckedSpec == Init /\ [][CheckedNext]_vars

\* ------------------------------------------------------------ capacity 0
\* A program that constructs its container with capacity 0 (the default
\* argument of every constructor) and then uses it like any other.
ZeroInit ==
    /\ d \in {Construct(0, v) : v \in Policies}
    /\ fault = FALSE
    /\ call = Call("construct", DefaultPair, 0, DefaultPair, 0, TRUE)
    /\ pushed = <<>>
    /\ popped = <<>>
    /\ workers = <<>>
    /\ mutex = NoThread
    /\ twin = NoTwin

\* d += rhs, rhs a container of the same variant and of any capacity.
MergeAny(rhs) ==
    /\ ~fault
    /\ rhs.policy = d.policy
    /\ \E o \in merge(d, rhs) :
          /\ d' = o.q
          /\ fault' = ~o.ok
          /\ call' = Call("merge", DefaultPair, 0, DefaultPair, size(rhs), o.rhs = rhs)
    /\ UNCHANGED <<pushed, popped, workers, mutex, twin>>

ZeroNext ==
    \/ \E element \in Pairs : Push(element)
    \/ \E key \in Keys, value \in Values : Emplace(key, value)
    \/ Pop
    \/ PopBottom
    \/ \E rhs \in RhsStates : MergeAny(rhs)
    \/ \E k \in 0..MaxCap : Resize(k)
    \/ Clear

ZeroSpec == ZeroInit /\ [][ZeroNext]_vars

\* ------------------------------------------------------------ sharded use
\* Each worker thread fills a container of its own with push and emplace;
\* the workers' containers are then merged, in any order, into the result
\* container d.  A worker's container is touched by that worker alone until
\* it is merged.
Threads == 1..NumThreads

Shard(own, merged) == [own |-> own, merged |-> merged]

ShardInit ==
    /\ d \in {Construct(c, v) : c \in 1..MaxCap, v \in Policies}
    /\ fault = FALSE
    /\ call = Call("construct", DefaultPair, d.k, DefaultPair, 0, TRUE)
    /\ pushed = <<>>
    /\ popped = <<>>
    /\ workers \in [Threads -> {Shard(Construct(c, d.policy), FALSE) : c \in 1..MaxCap}]
    /\ mutex = NoThread
    /\ twin = NoTwin

ShardPush(w, element) ==
    /\ ~fault
    /\ ~workers[w].merged
    /\ Len(pushed) < MaxShardPush
    /\ \E o \in push(workers[w].own, element) :
          /\ workers' = [workers EXCEPT ![w].own = o.q]
          /\ fault' = ~o.ok
    /\ call' = Call("push", element, 0, DefaultPair, 0, TRUE)
    /\ pushed' = Append(pushed, element)
    /\ UNCHANGED <<d, popped, mutex, twin>>

ShardEmplace(w, key, value) ==
    /\ ~fault
    /\ ~workers[w].merged
    /\ Len(pushed) < MaxShardPush
    /\ \E o \in emplace(workers[w].own, key, value) :
          /\ workers' = [workers EXCEPT ![w].own = o.q]
          /\ fault' = ~o.ok
    /\ call' = Call("emplace", BoundingPair(key, value), 0, DefaultPair, 0, TRUE)
    /\ pushed' = Append(pushed, BoundingPair(key, value))
    /\ UNCHANGED <<d, popped, mutex, twin>>

\* d += the container of worker w.
ShardMerge(w) ==
    /\ ~fault
    /\ ~workers[w].merged
    /\ \E o \in merge(d, workers[w].own) :
          /\ d' = o.q
          /\ fault' = ~o.ok
          /\ workers' = [workers EXCEPT ![w] = Shard(o.rhs, TRUE)]
          /\ call' = Call("merge", DefaultPair, 0, DefaultPair,
                          size(workers[w].own), o.rhs = workers[w].own)
    /\ UNCHANGED <<pushed, popped, mutex, twin>>

ShardNext ==
    \/ \E w \in Threads, element \in Pairs : ShardPush(w, element)
    \/ \E w \in Threads, key \in Keys, value \in Values : ShardEmplace(w, key, value)
    \/ \E w \in Threads : ShardMerge(w)

ShardSpec == ShardInit /\ [][ShardNext]_vars

\* ------------------------------------------------- one container, locked
\* fillDequeConcurrently of the tests: every thread runs a loop that draws a
\* key, takes the common mutex (std::lock_guard), pushes into the shared
\* container d and releases the mutex at the end of the iteration.
\* push runs in two steps, as in the code: the capacity test with the
\* eviction it may do, then insert.
\* The outcome of the first step of push: the container, whether the
\* process still runs, and whether insert is called next.
Gate(q, ok, inserts) == [q |-> q, ok |-> ok, inserts |-> inserts]

\* The capacity test of push that never evicts (mutant).
pushGateNoEviction(q, element) ==
    {Gate(q, TRUE, TRUE)}

\* The first step of push: the capacity test and the eviction.
pushGate(q, element) ==
    IF q.size = q.k
    THEN IF ~InBounds(q, q.tail)
         THEN {Gate(o.q, o.ok, FALSE) : o \in OutOfBounds(q)}
         ELSE IF compare(q, element.key, At(q, q.tail).key)
         THEN {Gate(popBottomInternal(q), TRUE, TRUE)}
         ELSE {Gate(q, TRUE, FALSE)}
    ELSE {Gate(q, TRUE, TRUE)}

\* A thread of the loop: where it is, the entry it is pushing, and the
\* iterations it has left.
Runner(pc, elem, left) == [pc |-> pc, elem |-> elem, left |-> left]

\* std::lock_guard that does not wait for the mutex (mutant).
MutexIgnored == TRUE

\* The mutex can be taken.
MutexFree == mutex = NoThread

LockInit ==
    /\ d \in {Construct(c, v) : c \in 1..MaxCap, v \in Policies}
    /\ fault = FALSE
    /\ call = Call("construct", DefaultPair, d.k, DefaultPair, 0, TRUE)
    /\ pushed = <<>>
    /\ popped = <<>>
    /\ workers = [w \in Threads |-> Runner("idle", DefaultPair, PerThread)]
    /\ mutex = NoThread
    /\ twin = NoTwin

\* The thread draws its next entry and takes the mutex.
Lock(w, element) ==
    /\ ~fault
    /\ workers[w].pc = "idle"
    /\ MutexFree
    /\ mutex' = w
    /\ workers' = [workers EXCEPT ![w] = Runner("locked", element, @.left)]
    /\ call' = Call("lock", element, 0, DefaultPair, 0, TRUE)
    /\ UNCHANGED <<d, fault, pushed, popped, twin>>

\* push, up to the call of insert.
LockedGate(w) ==
    /\ ~fault
    /\ workers[w].pc = "locked"
    /\ \E g \in pushGate(d, workers[w].elem) :
          /\ d' = g.q
          /\ fault' = ~g.ok
          /\ workers' = [workers EXCEPT
                            ![w].pc = IF g.inserts THEN "insert" ELSE "unlock"]
          /\ pushed' = IF g.inserts THEN pushed
                                    ELSE Append(pushed, workers[w].elem)
    /\ call' = Call("push", workers[w].elem, 0, DefaultPair, 0, TRUE)
    /\ UNCHANGED <<popped, mutex, twin>>

\* push, the call of insert.
LockedInsert(w) ==
    /\ ~fault
    /\ workers[w].pc = "insert"
    /\ \E o \in insert(d, workers[w].elem) :
          /\ d' = o.q
          /\ fault' = ~o.ok
    /\ workers' = [workers EXCEPT ![w].pc = "unlock"]
    /\ pushed' = Append(pushed, workers[w].elem)
    /\ call' = Call("insert", workers[w].elem, 0, DefaultPair, 0, TRUE)
    /\ UNCHANGED <<popped, mutex, twin>>

\* End of the iteration: the lock_guard releases the mutex.
Unlock(w) ==
    /\ ~fault
    /\ workers[w].pc = "unlock"
    /\ mutex' = NoThread
    /\ workers' = [workers EXCEPT
                      ![w] = Runner(IF @.left = 1 THEN "done" ELSE "idle",
                                    @.elem, @.left - 1)]
    /\ call' = Call("unlock", workers[w].elem, 0, DefaultPair, 0, TRUE)
    /\ UNCHANGED <<d, fault, pushed, popped, twin>>

LockNext ==
    \/ \E w \in Threads, element \in Pairs : Lock(w, element)
    \/ \E w \in Threads : LockedGate(w)
    \/ \E w \in Threads : LockedInsert(w)
    \/ \E w \in Threads : Unlock(w)

LockSpec == LockInit /\ [][LockNext]_vars

\* ----------------------------------------------- one container, no lock
\* The loop of fillDequeConcurrently without its lock_guard: every thread
\* pushes PerThread entries into the shared container d and nothing orders
\* the steps of two pushes.  A push runs in three steps: the capacity test
\* with the eviction it may do; insert up to and including the write of the
\* slot, ending with the read of _size for ++_size; the write of _size.
\* Each step groups accesses that one thread makes in a row, so the runs
\* are some of those the accesses can be interleaved into.
\* A thread: where it is, the entry it is pushing, the pushes it has left,
\* the value it is about to write to _size, and whether another thread has
\* written to the container since this one's capacity test.
Racer(pc, elem, left, next, raced) ==
    [pc |-> pc, elem |-> elem, left |-> left, next |-> next, raced |-> raced]

\* The record of a step of a racing push (the container may hold indices
\* that bottom() cannot read).
RaceCall(op, elem) ==
    [op |-> op, elem |-> elem, cap |-> 0, ret |-> DefaultPair,
     rhsSize |-> 0, rhsKept |-> TRUE,
     preSize |-> d.size, preFull |-> full(d), preWrapped |-> Wrapped(d),
     preBottom |-> DefaultPair, error |-> NoError]

\* Thread w has written to the container: the threads in the middle of a
\* push have been raced with.  Thread w goes on as r.
AfterWrite(w, r) ==
    [v \in Threads |->
        IF v = w THEN r
        ELSE IF workers[v].pc \in {"place", "bump"}
             THEN [workers[v] EXCEPT !.raced = TRUE]
             ELSE workers[v]]

\* A thread at the end of a push.
Finished(r) ==
    Racer(IF r.left = 1 THEN "done" ELSE "idle", r.elem, r.left - 1, 0, r.raced)

RaceInit ==
    /\ d \in {Construct(c, v) : c \in 1..MaxCap, v \in Policies}
    /\ fault = FALSE
    /\ call = Call("construct", DefaultPair, d.k, DefaultPair, 0, TRUE)
    /\ pushed = <<>>
    /\ popped = <<>>
    /\ workers = [w \in Threads |-> Racer("idle", DefaultPair, PerThread, 0, FALSE)]
    /\ mutex = NoThread
    /\ twin = NoTwin

\* push(element), up to the call of insert.
RaceGate(w, element) ==
    /\ ~fault
    /\ workers[w].pc = "idle"
    /\ \E g \in pushGate(d, element) :
          /\ d' = g.q
          /\ fault' = ~g.ok
          /\ LET r == [workers[w] EXCEPT !.elem = element]
             IN  workers' =
                    IF g.inserts
                    THEN IF g.q # d
                         THEN AfterWrite(w, [r EXCEPT !.pc = "place"])
                         ELSE [workers EXCEPT ![w] = [r EXCEPT !.pc = "place"]]
                    ELSE [workers EXCEPT ![w] = Finished(r)]
          /\ pushed' = IF g.inserts THEN pushed ELSE Append(pushed, element)
    /\ call' = RaceCall("push", element)
    /\ UNCHANGED <<popped, mutex, twin>>

\* insert, up to ++_size: the slot and the index are written, _size is read.
RacePlace(w) ==
    /\ ~fault
    /\ workers[w].pc = "place"
    /\ \E o \in insert(d, workers[w].elem) :
          /\ d' = [o.q EXCEPT !.size = d.size]
          /\ fault' = ~o.ok
          /\ workers' = AfterWrite(w, [workers[w] EXCEPT !.pc = "bump",
                                                         !.next = o.q.size])
    /\ call' = RaceCall("insert", workers[w].elem)
    /\ UNCHANGED <<pushed, popped, mutex, twin>>

\* The write of ++_size (of _size = 1 in insert's first branch).
RaceBump(w) ==
    /\ ~fault
    /\ workers[w].pc = "bump"
    /\ d' = [d EXCEPT !.size = workers[w].next]
    /\ workers' = AfterWrite(w, Finished(workers[w]))
    /\ pushed' = Append(pushed, workers[w].elem)
    /\ call' = RaceCall("size", workers[w].elem)
    /\ UNCHANGED <<fault, popped, mutex, twin>>

RaceNext ==
    \/ \E w \in Threads, element \in Pairs : RaceGate(w, element)
    \/ \E w \in Threads : RacePlace(w)
    \/ \E w \in Threads : RaceBump(w)

RaceSpec == RaceInit /\ [][RaceNext]_vars

\* ------------------------------------------------ entries told apart
\* A caller that gives every entry it pushes a payload of its own, so that
\* entries of equal keys can be told apart: the n-th push carries the n-th
\* payload.  At most MaxPush entries are pushed.
Stamps == <<"a", "b", "c", "d", "e", "f", "g", "h">>

Stamped(key) == BoundingPair(key, Stamps[Len(pushed) + 1])

TieInit ==
    /\ d \in {Construct(c, v) : c \in 1..MaxCap, v \in Policies}
    /\ fault = FALSE
    /\ call = Call("construct", DefaultPair, d.k, DefaultPair, 0, TRUE)
    /\ pushed = <<>>
    /\ popped = <<>>
    /\ workers = <<>>
    /\ mutex = NoThread
    /\ twin = NoTwin

TiePush(key) ==
    /\ ~fault
    /\ Len(pushed) < MaxPush
    /\ \E o \in push(d, Stamped(key)) :
          /\ d' = o.q
          /\ fault' = ~o.ok
    /\ pushed' = Append(pushed, Stamped(key))
    /\ call' = Call("push", Stamped(key), 0, DefaultPair, 0, TRUE)
    /\ UNCHANGED <<popped, workers, mutex, twin>>

TiePop ==
    /\ ~fault
    /\ ~empty(d)
    /\ d' = pop(d).q
    /\ popped' = Append(popped, pop(d).ret)
    /\ call' = Call("pop", DefaultPair, 0, pop(d).ret, 0, TRUE)
    /\ UNCHANGED <<fault, pushed, workers, mutex, twin>>

TiePopBottom ==
    /\ ~fault
    /\ ~empty(d)
    /\ d' = popBottom(d).q
    /\ popped' = Append(popped, popBottom(d).ret)
    /\ call' = Call("popBottom", DefaultPair, 0, popBottom(d).ret, 0, TRUE)
    /\ UNCHANGED <<fault, pushed, workers, mutex, twin>>

TieNext ==
    \/ \E key \in Keys : TiePush(key)
    \/ TiePop
    \/ TiePopBottom

TieSpec == TieInit /\ [][TieNext]_vars

\* ---------------------------------------------------------- custom variant
\* A program that uses BoundedPriorityDeque<K, V, Comparator>.
CustomRhsStates ==
    ReachWithin({Construct(c, v) : c \in 1..MaxCap, v \in Comparators}, RhsOps)

CustomInit ==
    /\ d \in {Construct(c, v) : c \in 1..MaxCap, v \in Comparators}
    /\ fault = FALSE
    /\ call = Call("construct", DefaultPair, d.k, DefaultPair, 0, TRUE)
    /\ pushed = <<>>
    /\ popped = <<>>
    /\ workers = <<>>
    /\ mutex = NoThread
    /\ twin = NoTwin

CustomNext ==
    \/ \E element \in Pairs : Push(element)
    \/ \E key \in Keys, value \in Values : Emplace(key, value)
    \/ Pop
    \/ PopBottom
    \/ \E rhs \in CustomRhsStates : Merge(rhs)
    \/ \E k \in 0..MaxCap : Resize(k)
    \/ Clear

CustomSpec == CustomInit /\ [][CustomNext]_vars

\* ------------------------------------------------------ cleared and fresh
\* A program with two containers of one variant and capacity: d, which has
\* been used (stale entries in its buffer) and is then cleared, and twin,
\* freshly constructed.  After the clear the program makes every call on
\* both.
\* The outcomes of one call on the two containers: a pair that ends the same
\* way (both return or both abort).
Both(os, ts) ==
    \E o \in os, t \in ts :
        /\ o.ok = t.ok
        /\ d' = o.q
        /\ twin' = t.q
        /\ fault' = ~o.ok

\* Right-hand sides the program merges into both: containers built from a
\* fresh one by at most TwinRhsOps push and pop calls.
TwinRhsStates ==
    ReachWithin({Construct(c, v) : c \in 1..MaxCap, v \in Policies}, TwinRhsOps)

\* d.clear() has been called.
Cleared == call.op # "construct"

TwinInit ==
    /\ d \in RhsStates
    /\ fault = FALSE
    /\ call = Call("construct", DefaultPair, d.k, DefaultPair, 0, TRUE)
    /\ pushed = <<>>
    /\ popped = <<>>
    /\ workers = <<>>
    /\ mutex = NoThread
    /\ twin = Construct(d.k, d.policy)

\* d.clear(), the first call of the program.
ClearUsed ==
    /\ ~Cleared
    /\ d' = clear(d)
    /\ call' = Call("clear", DefaultPair, 0, DefaultPair, 0, TRUE)
    /\ UNCHANGED <<fault, pushed, popped, workers, mutex, twin>>

BothPush(element) ==
    /\ ~fault /\ Cleared
    /\ Both(push(d, element), push(twin, element))
    /\ call' = Call("push", element, 0, DefaultPair, 0, TRUE)
    /\ UNCHANGED <<pushed, popped, workers, mutex>>

BothEmplace(key, value) ==
    /\ ~fault /\ Cleared
    /\ Both(emplace(d, key, value), emplace(twin, key, value))
    /\ call' = Call("emplace", BoundingPair(key, value), 0, DefaultPair, 0, TRUE)
    /\ UNCHANGED <<pushed, popped, workers, mutex>>

\* pop() and popBottom() on both; popped records what the two calls
\* returned, d's then twin's.
BothPop ==
    /\ ~fault /\ Cleared
    /\ ~empty(d) /\ ~empty(twin)
    /\ d' = pop(d).q
    /\ twin' = pop(twin).q
    /\ call' = Call("pop", DefaultPair, 0, pop(d).ret, 0, TRUE)
    /\ popped' = <<pop(d).ret, pop(twin).ret>>
    /\ UNCHANGED <<fault, pushed, workers, mutex>>

BothPopBottom ==
    /\ ~fault /\ Cleared
    /\ ~empty(d) /\ ~empty(twin)
    /\ d' = popBottom(d).q
    /\ twin' = popBottom(twin).q
    /\ call' = Call("popBottom", DefaultPair, 0, popBottom(d).ret, 0, TRUE)
    /\ popped' = <<popBottom(d).ret, popBottom(twin).ret>>
    /\ UNCHANGED <<fault, pushed, workers, mutex>>

BothMerge(rhs) ==
    /\ ~fault /\ Cleared
    /\ rhs.policy = d.policy
    /\ rhs.k = d.k
    /\ Both(merge(d, rhs), merge(twin, rhs))
    /\ call' = Call("merge", DefaultPair, 0, DefaultPair, size(rhs), TRUE)
    /\ UNCHANGED <<pushed, popped, workers, mutex>>

BothResize(k) ==
    /\ ~fault /\ Cleared
    /\ d' = resize(d, k)
    /\ twin' = resize(twin, k)
    /\ call' = Call("resize", DefaultPair, k, DefaultPair, 0, TRUE)
    /\ UNCHANGED <<fault, pushed, popped, workers, mutex>>

BothClear ==
    /\ ~fault /\ Cleared
    /\ d' = clear(d)
    /\ twin' = clear(twin)
    /\ call' = Call("clear", DefaultPair, 0, DefaultPair, 0, TRUE)
    /\ UNCHANGED <<fault, pushed, popped, workers, mutex>>

TwinNext ==
    \/ ClearUsed
    \/ \E element \in Pairs : BothPush(element)
    \/ \E key \in Keys, value \in Values : BothEmplace(key, value)
    \/ BothPop
    \/ BothPopBottom
    \/ \E rhs \in TwinRhsStates : BothMerge(rhs)
    \/ \E k \in 0..MaxCap : BothResize(k)
    \/ BothClear

TwinSpec == TwinInit /\ [][TwinNext]_vars

\* ------------------------------------------------------------- round trip
\* A program that fills an empty container with push and emplace calls and
\* then drains it with pop: pushed and popped record the entries passed in
\* and the entries returned, in call order.
\* Empty containers to start from: fresh ones, ones drained by pop (stale
\* slots), and either of those after a resize.
EmptyStates ==
    LET drained == {q \in RhsStates : empty(q)}
    IN  drained \cup {resize(q, k) : q \in drained, k \in 1..MaxCap}

RoundTripInit ==
    /\ d \in EmptyStates
    /\ fault = FALSE
    /\ call = Call("construct", DefaultPair, d.k, DefaultPair, 0, TRUE)
    /\ pushed = <<>>
    /\ popped = <<>>
    /\ workers = <<>>
    /\ mutex = NoThread
    /\ twin = NoTwin

RoundTripPush(element) ==
    /\ ~fault
    /\ popped = <<>>
    /\ Len(pushed) < MaxPush
    /\ \E o \in push(d, element) :
          /\ d' = o.q
          /\ fault' = ~o.ok
    /\ call' = Call("push", element, 0, DefaultPair, 0, TRUE)
    /\ pushed' = Append(pushed, element)
    /\ UNCHANGED <<popped, workers, mutex, twin>>

RoundTripEmplace(key, value) ==
    /\ ~fault
    /\ popped = <<>>
    /\ Len(pushed) < MaxPush
    /\ \E o \in emplace(d, key, value) :
          /\ d' = o.q
          /\ fault' = ~o.ok
    /\ call' = Call("emplace", BoundingPair(key, value), 0, DefaultPair, 0, TRUE)
    /\ pushed' = Append(pushed, BoundingPair(key, value))
    /\ UNCHANGED <<popped, workers, mutex, twin>>

RoundTripPop ==
    /\ ~fault
    /\ ~empty(d)
    /\ d' = pop(d).q
    /\ call' = Call("pop", DefaultPair, 0, pop(d).ret, 0, TRUE)
    /\ popped' = Append(popped, pop(d).ret)
    /\ UNCHANGED <<fault, pushed, workers, mutex, twin>>

RoundTripNext ==
    \/ \E element \in Pairs : RoundTripPush(element)
    \/ \E key \in Keys, value \in Values : RoundTripEmplace(key, value)
    \/ RoundTripPop

RoundTripSpec == RoundTripInit /\ [][RoundTripNext]_vars

\* --------------------------------------------------- vocabulary of claims
\* The retained entries from top to bottom: _size slots from _head, circularly.
Live(q) == [i \in 1..q.size |-> At(q, (q.head + (i - 1)) % q.k)]

KeysOf(s) == [i \in DOMAIN s |-> s[i].key]

\* a ranks strictly ahead of b in the variant.
Better(variant, a, b) == IF variant = "min" THEN a < b ELSE a > b

\* No element of s is strictly better than one before it.
NonWorsening(variant, s) ==
    \A i, j \in DOMAIN s : i < j => ~Better(variant, s[j], s[i])

Count(s, e) == Cardinality({i \in DOMAIN s : s[i] = e})

Elems(s) == {s[i] : i \in DOMAIN s}

SameBag(s, t) == \A e \in Elems(s) \cup Elems(t) : Count(s, e) = Count(t, e)

\* s with x put after the last element that is not worse than x.
RECURSIVE InsertRanked(_, _, _)
InsertRanked(variant, s, x) ==
    IF s = <<>> \/ ~Better(variant, x, s[Len(s)])
    THEN Append(s, x)
    ELSE Append(InsertRanked(variant, SubSeq(s, 1, Len(s) - 1), x), s[Len(s)])

\* The keys of s from best to worst.
RECURSIVE Ranked(_, _)
Ranked(variant, s) ==
    IF s = <<>> THEN <<>>
    ELSE InsertRanked(variant, Ranked(variant, SubSeq(s, 1, Len(s) - 1)), s[Len(s)])

\* The n best keys of s, best first.
BestKeys(variant, s, n) ==
    SubSeq(Ranked(variant, s), 1, IF n <= Len(s) THEN n ELSE Len(s))

\* ----------------------------------------------------------------- claims

\* C1: in every reachable state the size entries read from head circularly
\* are in non-worsening order under the active policy, so successive pop()
\* calls never return an entry strictly better than an earlier one.
C1_SortInvariant == NonWorsening(d.policy, KeysOf(Live(d)))

\* C2: size() <= capacity() in every reachable state, whatever sequence of
\* push, emplace, pop, popBottom, +=, resize and clear led to it.
C2_BoundInvariant == size(d) <= capacity(d)

\* C2 witness: a merge into a full container of capacity >= 2 that read a
\* non-empty right-hand side and left the container full.
C2_Witness ==
    /\ call.op = "merge" /\ call.preFull /\ call.rhsSize >= 1
    /\ capacity(d) >= 2 /\ full(d) /\ ~fault

\* C3: from an empty container of capacity k >= 1, after n pushes and then
\* pops, the keys popped so far followed by the keys still retained are the
\* min(n, k) best keys pushed, best first; once that many have been popped
\* the container is empty; a capacity-1 container holds the best key pushed.
C3_TopKRoundTrip ==
    LET n == Len(pushed)
        best == BestKeys(d.policy, KeysOf(pushed), IF n <= d.k THEN n ELSE d.k)
    IN  /\ ~fault
        /\ KeysOf(popped) \o KeysOf(Live(d)) = best
        /\ (Len(popped) = Len(best)) => (size(d) = 0 /\ empty(d))
        /\ (d.k = 1 /\ n >= 1 /\ popped = <<>>) => (top(d).key = best[1])

\* C3 witness: more entries than the capacity (>= 2) were pushed, one of
\* them better than an earlier one, and the container has been drained.
C3_Witness ==
    /\ d.k >= 2 /\ Len(pushed) > d.k
    /\ \E i, j \in DOMAIN pushed :
          i < j /\ Better(d.policy, pushed[j].key, pushed[i].key)
    /\ Len(popped) = d.k /\ empty(d)

PushLike == {"push", "emplace"}

\* C4: on a full container, push and emplace of a key that is not strictly
\* better than bottom()'s key leave size, head, tail and every retained
\* entry (and every slot of the buffer) unchanged.
C4_RejectionNoOp ==
    [][(/\ call'.op \in PushLike
        /\ full(d)
        /\ ~compare(d, call'.elem.key, bottomK(d)))
       => (/\ d'.size = d.size /\ d'.head = d.head /\ d'.tail = d.tail
           /\ Live(d') = Live(d)
           /\ d'.buffer = d.buffer
           /\ ~fault')]_vars

\* C4 witness: a push onto a full, wrapped container of a key equal to the
\* bottom's key.
C4_Witness ==
    /\ call.op \in PushLike /\ call.preFull /\ call.preWrapped
    /\ call.elem.key = call.preBottom.key

\* C5: on a full container, pushing an entry strictly better than bottom()
\* leaves size() == k, with the new entry retained, the previous bottom
\* entry removed and every other entry kept: the retained entries plus the
\* old bottom are the old entries plus the new one.
C5_EvictionCorrect ==
    [][(/\ call'.op \in PushLike
        /\ full(d)
        /\ compare(d, call'.elem.key, bottomK(d)))
       => (/\ ~fault'
           /\ size(d') = capacity(d)
           /\ SameBag(Append(Live(d'), bottom(d)),
                      Append(Live(d), call'.elem)))]_vars

\* C6: after A += B, for A and B of equal capacity and policy, A holds the
\* best min(|A| + |B|, capacity) keys of the two together, best first.
C6_MergeCorrect ==
    [][\A rhs \in RhsStates :
          Merge(rhs)
          => (/\ ~fault'
              /\ KeysOf(Live(d')) =
                    BestKeys(d.policy, KeysOf(Live(d)) \o KeysOf(Live(rhs)),
                             IF size(d) + size(rhs) <= capacity(d)
                             THEN size(d) + size(rhs) ELSE capacity(d)))]_vars

\* C7: A += B leaves B's size, capacity, head, tail and entries unchanged.
C7_MergeKeepsRhs == (call.op = "merge") => call.rhsKept

\* C7 witness: a merge that read at least two entries of B and put entries
\* into A.
C7_Witness ==
    /\ call.op = "merge" /\ call.rhsSize >= 2 /\ size(d) > call.preSize
    /\ ~fault

\* C8: resize(k') with 1 <= k' < capacity keeps exactly the min(size, k')
\* best-ranked entries retained before, in the same top-to-bottom order.
C8_ResizeShrinkBestK ==
    [][(call'.op = "resize" /\ call'.cap >= 1 /\ call'.cap < capacity(d))
       => LET m == IF size(d) <= call'.cap THEN size(d) ELSE call'.cap
          IN  /\ Live(d') = SubSeq(Live(d), 1, m)
              /\ KeysOf(Live(d')) = BestKeys(d.policy, KeysOf(Live(d)), m)]_vars

\* C9: resize(k') with k' >= max(size, 1) keeps the top-to-bottom sequence
\* of retained entries and the size, and sets capacity() to k'.
C9_ResizeKeepsAll ==
    [][(call'.op = "resize" /\ call'.cap >= 1 /\ call'.cap >= size(d))
       => (/\ Live(d') = Live(d)
           /\ size(d') = size(d)
           /\ capacity(d') = call'.cap)]_vars

\* C9 witness: a resize of a wrapped container holding two or more entries
\* to a capacity that holds them all.
C9_Witness ==
    /\ call.op = "resize" /\ call.preWrapped /\ call.preSize >= 2
    /\ call.cap >= call.preSize /\ capacity(d) = call.cap

\* C10: resize(0) leaves capacity, size, head, tail and all entries
\* unchanged and raises no error.
C10_ResizeZeroNoOp ==
    [][(call'.op = "resize" /\ call'.cap = 0) => (d' = d /\ ~fault')]_vars

\* C10 witness: resize(0) called on a wrapped, non-empty container.
C10_Witness ==
    /\ call.op = "resize" /\ call.cap = 0
    /\ call.preWrapped /\ call.preSize >= 1 /\ size(d) = call.preSize

\* C11: in every reachable non-empty state no retained entry is strictly
\* better than top() and none is strictly worse than bottom().
C11_TopBestBottomWorst ==
    ~empty(d) =>
        \A i \in 1..size(d) :
            /\ ~Better(d.policy, Live(d)[i].key, top(d).key)
            /\ ~Better(d.policy, bottom(d).key, Live(d)[i].key)

EmptyChecked == {"top", "bottom", "pop", "popBottom"}

\* C12: in the checked build, top(), bottom(), pop() and popBottom() called
\* with size == 0 end in an error and leave size, head, tail, capacity and
\* the buffer unchanged.
C12_EmptyAccessFails ==
    [][(empty(d) /\ call'.op \in EmptyChecked)
       => (call'.error # NoError /\ d' = d /\ ~fault')]_vars

\* C12 witness: popBottom() has just failed on a container that was used
\* before and drained.
C12_Witness ==
    /\ call.op = "popBottom" /\ call.error # NoError
    /\ empty(d) /\ d.buffer[1] # DefaultPair

Words(message) == {message[i] : i \in DOMAIN message}

\* The word by which a message names the operation: the end it reads for
\* the accessors, the removal for pop and popBottom.
OperationWord(op) ==
    CASE op \in {"top", "topK"} -> "top"
      [] op \in {"bottom", "bottomK"} -> "bottom"
      [] op \in {"pop", "popBottom"} -> "pop"

\* C13: the message of an empty-container error names the operation that
\* was called and says the container was empty; top() fails with exactly
\* "Attempted to access top element of empty BoundedPriorityDeque".
C13_ErrorNamesOperation ==
    (call.error # NoError) =>
        /\ OperationWord(call.op) \in Words(call.error)
        /\ "empty" \in Words(call.error)
        /\ (call.op = "top") =>
              call.error = <<"Attempted", "to", "access", "top", "element",
                             "of", "empty", "BoundedPriorityDeque">>

Adding == {"push", "emplace", "merge"}

\* C14: on a container created with capacity 0 every push, emplace and +=
\* returns normally with the container as it was, size() == 0 (no slot is
\* touched, no index is taken modulo 0); after resize(k), k >= 1, it is an
\* empty container of capacity k on which push does what it does on a
\* fresh one.
C14_CapacityZero ==
    [][/\ (capacity(d) = 0 /\ call'.op \in Adding)
          => (~fault' /\ size(d') = 0 /\ d' = d)
       /\ (capacity(d) = 0 /\ call'.op = "resize" /\ call'.cap >= 1)
          => (/\ size(d') = 0 /\ capacity(d') = call'.cap
              /\ \A e \in Pairs :
                    push(d', e) = push(Construct(call'.cap, d.policy), e))]_vars

\* C15: on a container of capacity >= 1, push, emplace and += never fail:
\* every call returns normally, as an insert, an evict-and-insert or a
\* no-op, having shifted only ranges with first <= last inside the buffer.
C15_AddingNeverFails ==
    [][(capacity(d) >= 1 /\ call'.op \in Adding) => ~fault']_vars

AllMerged == \A w \in DOMAIN workers : workers[w].merged

\* The result container retains, as a multiset, the best min(total, k) of
\* all the keys pushed.
HoldsBestPushed ==
    /\ ~fault
    /\ SameBag(KeysOf(Live(d)),
               BestKeys(d.policy, KeysOf(pushed),
                        IF Len(pushed) <= capacity(d) THEN Len(pushed)
                                                      ELSE capacity(d)))

\* C16 as stated: once every worker's container has been merged into the
\* result container of capacity k, in whatever order, the result retains
\* the best min(total, k) keys of everything the workers pushed.
C16_ShardedMergeAnyCapacity == AllMerged => HoldsBestPushed

\* C16 with the workers' capacities bounded below: the same, when every
\* worker's container has capacity >= k.
C16_ShardedMerge ==
    (AllMerged /\ \A w \in DOMAIN workers :
                     capacity(workers[w].own) >= capacity(d))
    => HoldsBestPushed

\* C16 witness: all workers merged, each having retained an entry in a
\* container at least as large as the result, more entries pushed than the
\* result (capacity >= 2) can hold.
C16_Witness ==
    /\ AllMerged /\ capacity(d) >= 2 /\ Len(pushed) > capacity(d)
    /\ \A w \in DOMAIN workers :
          /\ capacity(workers[w].own) >= capacity(d)
          /\ size(workers[w].own) >= 1
    /\ full(d) /\ ~fault

AllDone == \A w \in DOMAIN workers : workers[w].pc = "done"

\* C17: when several threads push into one container, every push under one
\* common mutex, then after the threads have finished, whatever the
\* interleaving, size() <= capacity(), the container is sorted and it
\* retains the best min(n, capacity) of the n keys pushed.
C17_LockedPushes ==
    AllDone =>
        /\ ~fault
        /\ size(d) <= capacity(d)
        /\ NonWorsening(d.policy, KeysOf(Live(d)))
        /\ KeysOf(Live(d)) =
              BestKeys(d.policy, KeysOf(pushed),
                       IF Len(pushed) <= capacity(d) THEN Len(pushed)
                                                     ELSE capacity(d))

\* C17 witness: all threads have finished, together they pushed more
\* entries than the capacity (>= 2), one of them better than an earlier one.
C17_Witness ==
    /\ AllDone /\ Len(pushed) = NumThreads * PerThread
    /\ capacity(d) >= 2 /\ Len(pushed) > capacity(d)
    /\ \E i, j \in DOMAIN pushed :
          i < j /\ Better(d.policy, pushed[j].key, pushed[i].key)

\* C18: from every reachable state, emplace(key, value) and push of the
\* entry (key, value) produce the same size, head, tail and buffer.
C18_EmplaceIsPush ==
    \A key \in Keys, value \in Values :
        emplace(d, key, value) = push(d, BoundingPair(key, value))

\* C18 witness: an emplace into a full, wrapped container has evicted the
\* bottom and inserted its entry.
C18_Witness ==
    /\ call.op = "emplace" /\ call.preFull /\ call.preWrapped
    /\ Better(d.policy, call.elem.key, call.preBottom.key)
    /\ \E i \in 1..size(d) : Live(d)[i] = call.elem
    /\ ~fault

\* The mirror image of a container: the other of the two variants, holding
\* the negated keys in the same slots.
MirrorPair(e) == BoundingPair(0 - e.key, e.value)

Mirror(q) ==
    [q EXCEPT !.policy = IF q.policy = "min" THEN "max" ELSE "min",
              !.buffer = [i \in DOMAIN q.buffer |-> MirrorPair(q.buffer[i])]]

MirrorOutcomes(os) == {[q |-> Mirror(o.q), ok |-> o.ok] : o \in os}

\* Every operation on the mirror image gives the mirror image of what it
\* gives on the container.
MirrorImage(q) ==
    /\ \A e \in Pairs :
          /\ push(Mirror(q), MirrorPair(e)) = MirrorOutcomes(push(q, e))
          /\ emplace(Mirror(q), 0 - e.key, e.value)
                = MirrorOutcomes(emplace(q, e.key, e.value))
    /\ ~empty(q) =>
          /\ pop(Mirror(q)) = [q |-> Mirror(pop(q).q), ret |-> MirrorPair(pop(q).ret)]
          /\ popBottom(Mirror(q))
                = [q |-> Mirror(popBottom(q).q), ret |-> MirrorPair(popBottom(q).ret)]
    /\ \A k \in 0..MaxCap : resize(Mirror(q), k) = Mirror(resize(q, k))
    /\ clear(Mirror(q)) = Mirror(clear(q))
    /\ \A rhs \in {r \in RhsStates : r.policy = q.policy /\ r.k = q.k} :
          merge(Mirror(q), Mirror(rhs))
             = {Merged(Mirror(o.q), Mirror(o.rhs), o.ok) : o \in merge(q, rhs)}

\* The key no key of s ranks ahead of / behind: the smallest and the largest.
Smallest(s) == CHOOSE x \in Elems(s) : \A y \in Elems(s) : x <= y

Largest(s) == CHOOSE x \in Elems(s) : \A y \in Elems(s) : x >= y

\* C19: in the min variant top() is the smallest retained key and a full
\* container evicts its largest key; in the max variant top() is the
\* largest and the smallest is evicted; the max variant on keys x mirrors
\* the min variant on keys -x, operation by operation.
C19_OrderingPolicies ==
    [][/\ ~empty(d) =>
             topK(d) = IF d.policy = "min" THEN Smallest(KeysOf(Live(d)))
                                           ELSE Largest(KeysOf(Live(d)))
       /\ (call'.op \in PushLike /\ full(d)
              /\ compare(d, call'.elem.key, bottomK(d)))
          => SameBag(Append(KeysOf(Live(d')),
                            IF d.policy = "min" THEN Largest(KeysOf(Live(d)))
                                                ELSE Smallest(KeysOf(Live(d)))),
                     Append(KeysOf(Live(d)), call'.elem.key))
       /\ MirrorImage(d)]_vars

\* The container of the min or max variant with the same fields as a
\* container of the custom variant: min for std::less, max for std::greater.
AsBuiltin(q) == [q EXCEPT !.policy = IF q.policy = "less" THEN "min" ELSE "max"]

BuiltinOutcomes(os) == {[q |-> AsBuiltin(o.q), ok |-> o.ok] : o \in os}

\* C20: the custom variant with std::greater does, state by state, what the
\* max variant does, and with std::less what the min variant does: it
\* starts as they start, and every operation leads it and them from
\* matching states to matching states and results.
C20_CustomIsBuiltin ==
    /\ (call.op = "construct") =>
          AsBuiltin(d) = Construct(d.k, IF d.policy = "less" THEN "min" ELSE "max")
    /\ \A e \in Pairs :
          /\ push(AsBuiltin(d), e) = BuiltinOutcomes(push(d, e))
          /\ emplace(AsBuiltin(d), e.key, e.value)
                = BuiltinOutcomes(emplace(d, e.key, e.value))
    /\ ~empty(d) =>
          /\ pop(AsBuiltin(d)) = [q |-> AsBuiltin(pop(d).q), ret |-> pop(d).ret]
          /\ popBottom(AsBuiltin(d))
                = [q |-> AsBuiltin(popBottom(d).q), ret |-> popBottom(d).ret]
          /\ top(AsBuiltin(d)) = top(d) /\ bottom(AsBuiltin(d)) = bottom(d)
    /\ \A k \in 0..MaxCap : resize(AsBuiltin(d), k) = AsBuiltin(resize(d, k))
    /\ clear(AsBuiltin(d)) = AsBuiltin(clear(d))
    /\ \A rhs \in {r \in CustomRhsStates : r.policy = d.policy /\ r.k = d.k} :
          merge(AsBuiltin(d), AsBuiltin(rhs))
             = {Merged(AsBuiltin(o.q), AsBuiltin(o.rhs), o.ok) : o \in merge(d, rhs)}

\* C20 witness: a custom container built with std::greater was full and
\* wrapped and has just taken a push of a larger key than its bottom's.
C20_Witness ==
    /\ d.policy = "greater" /\ call.op \in PushLike
    /\ call.preFull /\ call.preWrapped
    /\ call.elem.key > call.preBottom.key
    /\ ~fault

\* The entries successive pop() calls return until the container is empty.
RECURSIVE Drain(_)
Drain(q) == IF empty(q) THEN <<>> ELSE <<pop(q).ret>> \o Drain(pop(q).q)

\* C21: in every reachable state and for every offset i with 0 <= i < size(),
\* operator[](i) returns the i-th best retained entry, which is the entry the
\* (i+1)-th of successive pop() calls would return, whether or not the live
\* range wraps.
C21_SubscriptIthBest ==
    \A i \in 0..(size(d) - 1) :
        /\ Subscript(d, i) = Drain(d)[i + 1]
        /\ Subscript(d, i).key
              = BestKeys(d.policy, KeysOf(Live(d)), size(d))[i + 1]

\* C22: pop() on a non-empty container returns the entry top() returned just
\* before the call and decreases size by exactly 1; when entries remain it
\* advances head one step circularly and leaves tail and the order of the
\* remaining entries unchanged.
C22_PopStep ==
    [][(call'.op = "pop" /\ ~empty(d))
       => (/\ call'.ret = top(d)
           /\ size(d') = size(d) - 1
           /\ ~fault'
           /\ (size(d') > 0)
              => (/\ d'.head = (d.head + 1) % capacity(d)
                  /\ d'.tail = d.tail
                  /\ Live(d') = Tail(Live(d))))]_vars

\* C22 witness: pop() has taken the top of a wrapped container from the last
\* slot of the buffer, so that head went round to slot 0 with entries left.
C22_Witness ==
    /\ call.op = "pop" /\ call.preWrapped /\ call.preSize >= 2
    /\ size(d) = call.preSize - 1 /\ d.head = 0 /\ capacity(d) >= 3

\* C23: popBottom() on a non-empty container returns the entry bottom()
\* returned just before the call and decreases size by exactly 1; when
\* entries remain it moves tail one step back circularly and leaves head and
\* the order of the remaining entries unchanged.
C23_PopBottomStep ==
    [][(call'.op = "popBottom" /\ ~empty(d))
       => (/\ call'.ret = bottom(d)
           /\ size(d') = size(d) - 1
           /\ ~fault'
           /\ (size(d') > 0)
              => (/\ d'.tail = (d.tail + capacity(d) - 1) % capacity(d)
                  /\ d'.head = d.head
                  /\ Live(d') = SubSeq(Live(d), 1, size(d) - 1)))]_vars

\* C23 witness: popBottom() has taken the bottom of a wrapped container from
\* slot 0, so that tail went round to the last slot with entries left.
C23_Witness ==
    /\ call.op = "popBottom" /\ call.preWrapped /\ call.preSize >= 2
    /\ size(d) = call.preSize - 1 /\ capacity(d) >= 3
    /\ d.tail = capacity(d) - 1

\* What a caller can see of a container: capacity, bookkeeping and the
\* retained entries from top to bottom.
Seen(q) == [k |-> q.k, size |-> q.size, head |-> q.head, tail |-> q.tail,
            live |-> Live(q)]

\* What a caller can see of an outcome: whether the call returned, and the
\* container it left if it did.
SeenOutcomes(os) ==
    {IF o.ok THEN [ok |-> TRUE, seen |-> Seen(o.q)] ELSE [ok |-> FALSE] : o \in os}

\* Every call gives the same on a as on b (operator+= is a loop of the steps
\* of push, compared call by call).
SameCalls(a, b) ==
    /\ \A e \in Pairs :
          /\ SeenOutcomes(push(a, e)) = SeenOutcomes(push(b, e))
          /\ SeenOutcomes(emplace(a, e.key, e.value))
                = SeenOutcomes(emplace(b, e.key, e.value))
    /\ size(a) = size(b) /\ capacity(a) = capacity(b)
    /\ empty(a) = empty(b) /\ full(a) = full(b)
    /\ ~empty(a) =>
          /\ top(a) = top(b) /\ bottom(a) = bottom(b)
          /\ topK(a) = topK(b) /\ bottomK(a) = bottomK(b)
          /\ pop(a).ret = pop(b).ret /\ Seen(pop(a).q) = Seen(pop(b).q)
          /\ popBottom(a).ret = popBottom(b).ret
          /\ Seen(popBottom(a).q) = Seen(popBottom(b).q)
    /\ \A i \in 0..(size(a) - 1) : Subscript(a, i) = Subscript(b, i)
    /\ \A k \in 0..MaxCap : Seen(resize(a, k)) = Seen(resize(b, k))
    /\ Seen(clear(a)) = Seen(clear(b))

\* C24: clear() leaves size 0, head 0, tail 0 and the capacity as it was,
\* and from then on every sequence of operations does on the cleared
\* container what it does on a freshly constructed one of the same capacity,
\* whatever the stale contents of the buffer.
C24_ClearIsFresh ==
    /\ [][(call'.op = "clear")
          => (/\ size(d') = 0 /\ d'.head = 0 /\ d'.tail = 0
              /\ capacity(d') = capacity(d))]_vars
    /\ []((Cleared /\ ~fault) => (Seen(d) = Seen(twin) /\ SameCalls(d, twin)))

\* C24 witness: the cleared container has taken two or more entries since
\* and still holds a stale entry in a slot where the fresh one holds none.
C24_Witness ==
    /\ twin # NoTwin /\ call.op \in PushLike /\ ~fault
    /\ size(d) >= 2
    /\ \E i \in DOMAIN d.buffer :
          d.buffer[i] # twin.buffer[i] /\ twin.buffer[i] = DefaultPair

\* head == 0, tail == 0, size == 0.
CanonicalEmpty(q) == q.head = 0 /\ q.tail = 0 /\ q.size = 0

\* C25: whenever pop(), popBottom() or the eviction inside a push removes
\* the last retained entry, the bookkeeping is reset to head == 0, tail == 0,
\* size == 0 (for a push: before its insert runs, which then puts the new
\* entry in slot 0).
C25_ResetOnLastRemoval ==
    [][/\ (call'.op \in {"pop", "popBottom"} /\ size(d) = 1)
          => CanonicalEmpty(d')
       /\ (call'.op \in PushLike /\ full(d) /\ size(d) = 1
              /\ compare(d, call'.elem.key, bottomK(d)))
          => (/\ CanonicalEmpty(popBottomInternal(d))
              /\ d'.head = 0 /\ d'.tail = 0 /\ size(d') = 1
              /\ At(d', 0) = call'.elem)]_vars

\* C25 witness: pop() has removed the only entry left, from a slot other
\* than slot 0, and the container is empty.
C25_Witness ==
    /\ call.op = "pop" /\ call.preSize = 1 /\ size(d) = 0
    /\ call.ret # At(d, 0) /\ capacity(d) >= 2

\* C26: after resize(k') with k' >= 1, capacity == k' and head == 0; tail ==
\* size - 1 when size > 0; a container that is empty after the call is in the
\* canonical empty state head == 0, tail == 0, size == 0 (tail does not wrap
\* below zero).
C26_ResizePostcondition ==
    [][(call'.op = "resize" /\ call'.cap >= 1)
       => (/\ capacity(d') = call'.cap
           /\ d'.head = 0
           /\ (size(d') > 0) => (d'.tail = size(d') - 1)
           /\ (size(d') = 0) => CanonicalEmpty(d'))]_vars

Sorted(q) == NonWorsening(q.policy, KeysOf(Live(q)))

\* Keys a caller can search for: those stored, and one beyond either end.
Targets == 0..(MaxKey + 1)

\* The number of retained entries strictly better than key.
BetterCount(q, key) ==
    Cardinality({i \in 1..size(q) : Better(q.policy, Live(q)[i].key, key)})

\* C27: for a non-empty sorted container with size < capacity and any target
\* key, binarySearch returns the physical index (head + p) mod capacity, p
\* the number of retained entries strictly better than the target: the
\* leftmost logical position whose occupant is not better than the target,
\* for every head position and whether or not the live range wraps.
C27_InsertionPosition ==
    (~empty(d) /\ Sorted(d) /\ size(d) < capacity(d)) =>
        \A key \in Targets, value \in Values :
            LET p == BetterCount(d, key)
            IN  /\ binarySearch(d, BoundingPair(key, value))
                      = (d.head + p) % capacity(d)
                /\ \A i \in 1..p : Better(d.policy, Live(d)[i].key, key)
                /\ (p < size(d)) => ~Better(d.policy, Live(d)[p + 1].key, key)

\* C27 witness: a sorted container with a free slot whose range wraps and
\* which holds two different keys; the search for the worse of the two ends
\* between them, in the segment at the start of the buffer.
C27_Witness ==
    /\ Wrapped(d) /\ Sorted(d) /\ size(d) < capacity(d) /\ ~fault
    /\ \E key \in Keys, value \in Values :
          /\ BetterCount(d, key) \in 1..(size(d) - 1)
          /\ binarySearch(d, BoundingPair(key, value)) < d.head

\* The container insert is applied to by a push: the container itself, or
\* what _popBottom leaves of a full one.
InsertArg(q) == IF full(q) THEN popBottomInternal(q) ELSE q

\* s with x put in at logical position p (0-based).
PutAt(s, p, x) == SubSeq(s, 1, p) \o <<x>> \o SubSeq(s, p + 1, Len(s))

\* C28: when insert is applied to a non-empty (sorted) container with size <
\* capacity, size increases by exactly 1, exactly one of head (one step back)
\* and tail (one step forward) moves, the candidate ends up at logical
\* position p, after the p entries strictly better than it and before all
\* others, and the entries retained before keep their relative order.
C28_InsertStep ==
    [][(/\ call'.op \in PushLike
        /\ (full(d) => compare(d, call'.elem.key, bottomK(d)))
        /\ ~empty(InsertArg(d)) /\ Sorted(InsertArg(d)))
       => LET q == InsertArg(d)
              p == BetterCount(q, call'.elem.key)
          IN  /\ ~fault'
              /\ size(d') = size(q) + 1
              /\ \/ d'.head = prevIndex(q, q.head) /\ d'.tail = q.tail
                 \/ d'.tail = nextIndex(q, q.tail) /\ d'.head = q.head
              /\ Live(d') = PutAt(Live(q), p, call'.elem)]_vars

\* C29: when insert opens a gap at logical position p of a container holding
\* s entries, it moves the entries on the side nearer to p: the number of
\* entries moved is at most min(p, s - p).
C29_ShorterSideShift ==
    [][(/\ call'.op \in PushLike
        /\ (full(d) => compare(d, call'.elem.key, bottomK(d)))
        /\ ~empty(InsertArg(d)) /\ Sorted(InsertArg(d)))
       => LET q == InsertArg(d)
              p == BetterCount(q, call'.elem.key)
          IN  shiftCount(q, call'.elem) <= Min2(p, size(q) - p)]_vars

\* The outcomes of q.push(s[i]), q.push(s[i + 1]), ... to the end of s.
RECURSIVE PushEach(_, _, _)
PushEach(q, s, i) ==
    IF i > Len(s) THEN {Done(q)}
    ELSE UNION {IF o.ok THEN PushEach(o.q, s, i + 1) ELSE {o}
                : o \in push(q, s[i])}

\* The first offset of rhs whose entry a full q turns away (size(rhs) if
\* there is none), q taking the entries before it.
RECURSIVE StopsAt(_, _, _)
StopsAt(q, rhs, i) ==
    IF ~(i < size(rhs)) THEN {i}
    ELSE IF full(q) /\ ~compare(q, Subscript(rhs, i).key, bottomK(q)) THEN {i}
    ELSE UNION {IF o.ok THEN StopsAt(o.q, rhs, i + 1) ELSE {}
                : o \in push(q, Subscript(rhs, i))}

\* C30: for every reachable A and B, A += B leaves A in the state that
\* A.push(e) for each entry e of B, in B's top-to-bottom order, leaves it in;
\* the loop stops at the first entry of B that is not better than A.bottom()
\* while A is full, and no later entry of B is inserted.
C30_MergeIsPushes ==
    \A rhs \in {r \in RhsStates : r.policy = d.policy} :
        /\ {Done(o.q) : o \in {x \in merge(d, rhs) : x.ok}}
              = {o \in PushEach(d, Live(rhs), 1) : o.ok}
        /\ \A n \in StopsAt(d, rhs, 0) :
              {Done(o.q) : o \in {x \in merge(d, rhs) : x.ok}}
                 \subseteq PushEach(d, SubSeq(Live(rhs), 1, n), 1)

\* C31: a push (or emplace) onto an empty container of capacity >= 1 makes
\* the candidate the sole element: afterwards size == 1, head == 0,
\* tail == 0, and top() and bottom() both return the candidate, whatever
\* head and tail were before.
C31_PushOntoEmpty ==
    [][(call'.op \in PushLike /\ empty(d) /\ capacity(d) >= 1)
       => (/\ ~fault'
           /\ size(d') = 1 /\ d'.head = 0 /\ d'.tail = 0
           /\ top(d') = call'.elem /\ bottom(d') = call'.elem)]_vars

\* C31 witness: a push onto a container that had been used and drained (a
\* stale entry sits in a slot past the first) has made its entry the sole
\* element.
C31_Witness ==
    /\ call.op \in PushLike /\ call.preSize = 0 /\ size(d) = 1 /\ ~fault
    /\ capacity(d) >= 2 /\ At(d, 1) # DefaultPair
    /\ top(d) = call.elem

\* C32: capacity changes only on an explicit resize: push, emplace, pop,
\* popBottom, +=, clear, top, bottom (operator[] is read by +=) and
\* resize(0) leave capacity() and the length of the backing buffer unchanged.
C32_CapacityFrame ==
    [][(call'.op # "resize" \/ call'.cap = 0)
       => (/\ capacity(d') = capacity(d)
           /\ Len(d'.buffer) = Len(d.buffer))]_vars

\* C32 witness: popBottom() has taken an entry from a full container of
\* capacity >= 2, and capacity and buffer length are what they were.
C32_Witness ==
    /\ call.op = "popBottom" /\ call.error = NoError /\ call.preFull
    /\ capacity(d) >= 2 /\ size(d) = capacity(d) - 1
    /\ Len(d.buffer) = capacity(d)


\* Every thread has finished and no push had another thread write to the
\* container between its capacity test and its write of _size.
Unraced == AllDone /\ \A w \in DOMAIN workers : ~workers[w].raced

\* The container after pushes that came one after the other: within its
\* capacity, sorted, and holding the best of the keys pushed.
RightAfterPushes ==
    /\ ~fault
    /\ size(d) <= capacity(d)
    /\ Len(pushed) <= capacity(d) => size(d) = Len(pushed)
    /\ NonWorsening(d.policy, KeysOf(Live(d)))
    /\ KeysOf(Live(d)) =
          BestKeys(d.policy, KeysOf(pushed),
                   IF Len(pushed) <= capacity(d) THEN Len(pushed)
                                                 ELSE capacity(d))

\* C33: push takes no lock of its own.  When two threads push into one
\* container with no external lock and the steps of their pushes interleave,
\* states are reachable in which size() exceeds capacity(), an entry pushed
\* is lost, or the order is broken (C33_Witness); the pushes of a run in
\* which no push was interleaved with a write of another thread leave the
\* container right, so the damage comes from the interleaving alone.
C33_UnlockedPushes ==
    Unraced => RightAfterPushes

\* Both threads passed the capacity test of a container with one free slot
\* and both inserted: more entries than the capacity.
C33_Witness ==
    /\ AllDone /\ ~fault /\ ~Unraced
    /\ Len(pushed) = NumThreads * PerThread
    /\ size(d) > capacity(d)


\* floor(log2(n)) for n >= 1.
RECURSIVE Log2Floor(_)
Log2Floor(n) == IF n <= 1 THEN 0 ELSE 1 + Log2Floor(n \div 2)

\* The comparisons binarySearch makes for a target on the container d.
Probes(target) == BinarySearchProbes(d, target, 0, d.size)

\* C34: on every reachable state with size >= 1 and for every target,
\* binarySearch ends after at most floor(log2(size)) + 1 key comparisons,
\* each with a different entry of the live range and the last of them next
\* to the offset returned, whatever _head is and whether or not the live
\* range wraps; on an empty container it makes none.
C34_SearchIsLogarithmic ==
    \A target \in Pairs :
        LET probes == Probes(target) IN
        IF d.size = 0
        THEN probes = <<>>
        ELSE /\ Len(probes) <= Log2Floor(d.size) + 1
             /\ \A i \in DOMAIN probes : probes[i] < d.size
             /\ BinarySearchLoop(d, target, 0, d.size) - probes[Len(probes)]
                   \in {0, 1}
             /\ \A i, j \in DOMAIN probes : i # j => probes[i] # probes[j]

\* A wrapped range of three entries, the last of them just pushed: the
\* search for the key pushed takes two comparisons, the bound for size 3.
C34_Witness ==
    /\ call.op \in PushLike /\ ~fault /\ call.error = NoError
    /\ Wrapped(d) /\ d.head > 0 /\ d.size = 3
    /\ Len(Probes(call.elem)) = Log2Floor(d.size) + 1


\* C35: in every reachable state with size >= 1 of a container of capacity
\* k >= 1 (no abort), _head < k, _tail < k, size <= k and
\* _tail = (_head + size - 1) mod k: the live range is the size slots from
\* _head to _tail taken circularly.
C35_IndexConsistency ==
    (~fault /\ d.size > 0 /\ d.k >= 1) =>
        /\ d.head < d.k
        /\ d.tail < d.k
        /\ d.size <= d.k
        /\ d.tail = (d.head + d.size - 1) % d.k
        /\ At(d, d.head) = Live(d)[1]
        /\ At(d, d.tail) = Live(d)[d.size]


\* A pop from the bottom stepped _tail back over the physical start of the
\* buffer: the range still wraps and _tail is the last slot.
C35_Witness ==
    /\ call.op = "popBottom" /\ call.error = NoError /\ ~fault
    /\ call.preWrapped /\ d.size >= 1
    /\ d.head > 0 /\ d.tail = d.k - 1


\* Every entry occurs in s at most as often as in t.
SubBag(s, t) == \A e \in Elems(s) : Count(s, e) <= Count(t, e)

\* s is the first entries of t.
Prefix(s, t) == Len(s) <= Len(t) /\ s = SubSeq(t, 1, Len(s))

\* The step of the program conserves the entries: the retained entries
\* after it are those before it, plus the entry accepted, minus the entry
\* returned, evicted, dropped or cleared.
Conserves ==
    /\ call'.op \in PushLike =>
          IF full(d) /\ ~compare(d, call'.elem.key, bottomK(d))
          THEN SameBag(Live(d'), Live(d))
          ELSE SameBag(Live(d'), Append(Live(InsertArg(d)), call'.elem))
    /\ (call'.op = "pop" /\ call'.error = NoError) =>
          Live(d) = <<call'.ret>> \o Live(d')
    /\ (call'.op = "popBottom" /\ call'.error = NoError) =>
          Live(d) = Append(Live(d'), call'.ret)
    /\ (call'.op \in {"pop", "popBottom"} /\ call'.error # NoError) =>
          Live(d') = Live(d)
    /\ call'.op = "merge" =>
          \E rhs \in RhsStates :
             /\ Merge(rhs)
             /\ SubBag(Live(d'), Live(d) \o Live(rhs))
             /\ size(d') >= size(d)
    /\ call'.op = "resize" => Prefix(Live(d'), Live(d))
    /\ call'.op = "clear" => Live(d') = <<>>

\* C36: every step that returns conserves the entries: the retained
\* (key, payload) entries after it are the entries retained before it plus
\* those accepted by push, emplace or += and minus those returned by pop or
\* popBottom, evicted on overflow, dropped by a shrinking resize or removed
\* by clear; no entry is duplicated, overwritten or brought back.
C36_Conservation ==
    [][fault' \/ Conserves]_vars


\* The positions of the entries of s whose key is key.
EqualAt(s, key) == {i \in DOMAIN s : s[i].key = key}

\* C37: when a push inserts an entry whose key equals keys of entries already
\* retained, the new entry is placed nearer to the top than every one of
\* those entries: among equal keys the most recently inserted is read, and
\* popped, first.
C37_TieOrder ==
    [][(/\ call'.op = "push"
        /\ ~(full(d) /\ ~compare(d, call'.elem.key, bottomK(d)))
        /\ EqualAt(Live(InsertArg(d)), call'.elem.key) # {})
       => (\/ fault'
           \/ \E p \in DOMAIN Live(d') :
                 /\ Live(d')[p] = call'.elem
                 /\ \A j \in EqualAt(Live(d'), call'.elem.key) : p <= j)]_vars

====
